---- MODULE Spec2Model ----
(***************************************************************************)
(* Monday-range breakout statistics: the three analysis scripts            *)
(* (analyze_monday_ranges.py, monday_partial_breaks.py,                    *)
(* simple_monday_analysis.py) run one after the other on the same candle   *)
(* table.  Each script's for-loop over df.groupby(['Week', 'Year']) is one *)
(* action per iteration; the probability and report functions are one      *)
(* action each.                                                            *)
(***************************************************************************)
EXTENDS Integers, Sequences, FiniteSets, TLC

VARIABLES
    csv,         \* process_candles.py: the rows of the vendor's export
    filtered,    \* process_candles.py: the rows written to filtered_candles.csv
    df,          \* the candle table every script loads
    pc,          \* the function being executed
    i,           \* position of the running for-loop in the groupby keys
    amr,         \* analyze_monday_ranges.py: the counters of analyze_monday_ranges
    probs,       \* analyze_monday_ranges.py: result of calculate_probabilities
    either,      \* analyze_monday_ranges.py: either_break_prob of print_results
    apb,         \* monday_partial_breaks.py: the lists of analyze_partial_breaks
    xl_partial,  \* monday_partial_breaks.py: summary lines of create_excel_report
    sma,         \* simple_monday_analysis.py: the counters of analyze_monday_ranges
    sprobs,      \* simple_monday_analysis.py: result of calculate_probabilities
    xl_simple,   \* simple_monday_analysis.py: summary lines of create_excel_report
    err          \* per script, the exception main() re-raised (NoError if none)

vars == <<csv, filtered, df, pc, i, amr, probs, either, apb, xl_partial, sma, sprobs, xl_simple, err>>

(***************************************************************************)
(* The input table.  A date is a day number; day 0 is Monday 2023-12-25,   *)
(* so days 0..6 are ISO week 52 of 2023 and days 7..13 ISO week 1 of 2024. *)
(***************************************************************************)
MaxRows == 3

\* Mon, Tue, Wed, Sat of week 52/2023 and Mon of week 1/2024
Dates == {0, 1, 2, 5, 7}

\* (High, Low) of a candle
Candles == {<<2, 2>>, <<3, 2>>, <<2, 1>>}

\* pandas Series.dt.dayofweek: Monday = 0 .. Sunday = 6
DayOfWeek(date) == date % 7

\* Series.dt.isocalendar().week / .year on the dates of the table
Week(date) == IF date \div 7 = 0 THEN 52 ELSE 1

Year(date) == IF date \div 7 = 0 THEN 2023 ELSE 2024

\* load_data: the csv row with the three derived columns
load_data(date, candle) ==
    [Date |-> date, High |-> candle[1], Low |-> candle[2],
     DayOfWeek |-> DayOfWeek(date), Week |-> Week(date), Year |-> Year(date)]

Rows == {load_data(d, c) : d \in Dates, c \in Candles}

\* the tables of at most n rows drawn from the set rows
RECURSIVE TablesOf(_, _)
TablesOf(rows, n) ==
    IF n = 0 THEN {<<>>}
    ELSE LET shorter == TablesOf(rows, n - 1)
         IN  shorter \cup {Append(t, r) : t \in {s \in shorter : Len(s) = n - 1}, r \in rows}

Tables(n) == TablesOf(Rows, n)

\* read_csv parses an empty High or Low field as the float NaN
NaN == 0 - 2

\* candles with a missing price
NaNCandles == {<<NaN, NaN>>, <<3, NaN>>}

NaNRows == {load_data(d, c) : d \in Dates, c \in Candles \cup NaNCandles}

\* float comparison: every comparison with NaN is False
FloatGt(a, b) == a # NaN /\ b # NaN /\ a > b

FloatLt(a, b) == a # NaN /\ b # NaN /\ a < b

(***************************************************************************)
(* df.groupby(['Week', 'Year']): the keys in ascending (Week, Year) order, *)
(* each group the rows of that key in table order.                         *)
(***************************************************************************)
KeyOf(r) == <<r.Week, r.Year>>

KeyLess(a, b) == a[1] < b[1] \/ (a[1] = b[1] /\ a[2] < b[2])

RECURSIVE SortKeys(_)
SortKeys(S) ==
    IF S = {} THEN <<>>
    ELSE LET m == CHOOSE k \in S : \A o \in S \ {k} : KeyLess(k, o)
         IN  <<m>> \o SortKeys(S \ {m})

GroupKeys(table) == SortKeys({KeyOf(table[j]) : j \in 1..Len(table)})

WeekData(table, key) == LET InWeek(r) == KeyOf(r) = key IN SelectSeq(table, InWeek)

(***************************************************************************)
(* The boolean-mask selections of the loop body.                           *)
(***************************************************************************)
MondayData(week_data) == LET IsMonday(r) == r.DayOfWeek = 0 IN SelectSeq(week_data, IsMonday)

\* RestOfWeek with Saturday let in
RestOfWeekAndSaturday(week_data) ==
    LET IsIn(r) == r.DayOfWeek \in {1, 2, 3, 4, 5} IN SelectSeq(week_data, IsIn)

RestOfWeek(week_data) ==
    LET IsIn(r) == r.DayOfWeek \in {1, 2, 3, 4} IN SelectSeq(week_data, IsIn)

\* HighBreakDays with >= for >
HighBreakDaysOrEqual(rest_of_week, monday_high) ==
    LET Above(r) == r.High = monday_high \/ FloatGt(r.High, monday_high) IN SelectSeq(rest_of_week, Above)

HighBreakDays(rest_of_week, monday_high) ==
    LET Above(r) == FloatGt(r.High, monday_high) IN SelectSeq(rest_of_week, Above)

\* LowBreakDays with <= for <
LowBreakDaysOrEqual(rest_of_week, monday_low) ==
    LET Below(r) == r.Low = monday_low \/ FloatLt(r.Low, monday_low) IN SelectSeq(rest_of_week, Below)

LowBreakDays(rest_of_week, monday_low) ==
    LET Below(r) == FloatLt(r.Low, monday_low) IN SelectSeq(rest_of_week, Below)

\* collections.Counter: c[k] += 1
CounterInc(c, k) == IF k \in DOMAIN c THEN [c EXCEPT ![k] = @ + 1] ELSE (k :> 1) @@ c

RECURSIVE CounterSum(_)
CounterSum(c) ==
    IF DOMAIN c = {} THEN 0
    ELSE LET k == CHOOSE x \in DOMAIN c : TRUE
         IN  c[k] + CounterSum([x \in DOMAIN c \ {k} |-> c[x]])

EmptyCounter == [x \in {} |-> 0]

(***************************************************************************)
(* analyze_monday_ranges.py                                                *)
(***************************************************************************)
AmrInit ==
    [total_mondays |-> 0, monday_highs_taken |-> 0, monday_lows_taken |-> 0,
     both_broken |-> 0, day_high_break |-> EmptyCounter, day_low_break |-> EmptyCounter]

\* Counter increments for every row of a selection instead of its first row
RECURSIVE CounterIncAll(_, _)
CounterIncAll(c, rows) ==
    IF rows = <<>> THEN c ELSE CounterIncAll(CounterInc(c, Head(rows).DayOfWeek), Tail(rows))

\* AmrWeek with every break day tallied, not only the first
AmrWeekTallyAll(acc, week_data) ==
    LET monday_data == MondayData(week_data)
        rest_of_week == RestOfWeek(week_data)
        high_break_days == HighBreakDays(rest_of_week, monday_data[1].High)
        low_break_days == LowBreakDays(rest_of_week, monday_data[1].Low)
    IN  [total_mondays |-> acc.total_mondays + 1,
         monday_highs_taken |-> acc.monday_highs_taken + (IF high_break_days # <<>> THEN 1 ELSE 0),
         monday_lows_taken |-> acc.monday_lows_taken + (IF low_break_days # <<>> THEN 1 ELSE 0),
         both_broken |-> acc.both_broken
                         + (IF high_break_days # <<>> /\ low_break_days # <<>> THEN 1 ELSE 0),
         day_high_break |-> CounterIncAll(acc.day_high_break, high_break_days),
         day_low_break |-> CounterIncAll(acc.day_low_break, low_break_days)]

\* the body of the for-loop of analyze_monday_ranges for a week that has a Monday
AmrWeek(acc, week_data) ==
    LET monday_data == MondayData(week_data)
        monday_high == monday_data[1].High
        monday_low == monday_data[1].Low
        rest_of_week == RestOfWeek(week_data)
        high_break_days == HighBreakDays(rest_of_week, monday_high)
        high_broken == high_break_days # <<>>
        low_break_days == LowBreakDays(rest_of_week, monday_low)
        low_broken == low_break_days # <<>>
    IN  [total_mondays |-> acc.total_mondays + 1,
         monday_highs_taken |-> acc.monday_highs_taken + (IF high_broken THEN 1 ELSE 0),
         monday_lows_taken |-> acc.monday_lows_taken + (IF low_broken THEN 1 ELSE 0),
         both_broken |-> acc.both_broken + (IF high_broken /\ low_broken THEN 1 ELSE 0),
         day_high_break |-> IF high_broken
                            THEN CounterInc(acc.day_high_break, high_break_days[1].DayOfWeek)
                            ELSE acc.day_high_break,
         day_low_break |-> IF low_broken
                           THEN CounterInc(acc.day_low_break, low_break_days[1].DayOfWeek)
                           ELSE acc.day_low_break]

\* AmrBody with total_mondays counted before the no-Monday test
AmrBodyCountsFirst(acc, week_data) ==
    IF Len(MondayData(week_data)) = 0
    THEN [acc EXCEPT !.total_mondays = @ + 1]
    ELSE AmrWeek(acc, week_data)

\* one iteration of the for-loop of analyze_monday_ranges: a week without a Monday
\* row is skipped (continue)
AmrBody(acc, week_data) ==
    IF Len(MondayData(week_data)) = 0 THEN acc ELSE AmrWeek(acc, week_data)

\* analyze_monday_ranges as a whole: the loop over all groups of a table
RECURSIVE AmrFold(_, _, _)
AmrFold(acc, table, keys) ==
    IF keys = <<>> THEN acc
    ELSE AmrFold(AmrBody(acc, WeekData(table, Head(keys))), table, Tail(keys))

analyze_monday_ranges(table) == AmrFold(AmrInit, table, GroupKeys(table))

\* a / b of two ints, kept exact as the pair (a, b); b = 0 raises ZeroDivisionError
Frac(a, b) == <<a, b>>

\* the literal 0 of the "else 0" branches
Zero == <<0, 1>>

NoError == "NoError"

Scripts ==
    {"process_candles", "analyze_monday_ranges", "monday_partial_breaks",
     "simple_monday_analysis"}

day_names == (1 :> "Tuesday") @@ (2 :> "Wednesday") @@ (3 :> "Thursday") @@ (4 :> "Friday")

ProbsInit ==
    [high_break_prob |-> Zero, low_break_prob |-> Zero,
     day_high_probs |-> EmptyCounter, day_low_probs |-> EmptyCounter]

\* calculate_probabilities (the same code in analyze_monday_ranges.py and
\* simple_monday_analysis.py)
calculate_probabilities(total_mondays, monday_highs_taken, monday_lows_taken, day_high_break, day_low_break) ==
    [high_break_prob |-> IF total_mondays > 0 THEN Frac(monday_highs_taken, total_mondays)
                         ELSE Zero,
     low_break_prob |-> IF total_mondays > 0 THEN Frac(monday_lows_taken, total_mondays)
                        ELSE Zero,
     day_high_probs |-> [name \in {day_names[d] : d \in DOMAIN day_high_break} |->
                            LET day == CHOOSE d \in DOMAIN day_high_break : day_names[d] = name
                            IN  IF monday_highs_taken > 0
                                THEN Frac(day_high_break[day], monday_highs_taken) ELSE Zero],
     day_low_probs |-> [name \in {day_names[d] : d \in DOMAIN day_low_break} |->
                           LET day == CHOOSE d \in DOMAIN day_low_break : day_names[d] = name
                           IN  IF monday_lows_taken > 0
                               THEN Frac(day_low_break[day], monday_lows_taken) ELSE Zero]]

\* either_break_prob without the inclusion-exclusion correction
either_break_prob_sum(total_mondays, monday_highs_taken, monday_lows_taken, both_broken) ==
    IF total_mondays > 0
    THEN Frac(monday_highs_taken + monday_lows_taken, total_mondays)
    ELSE Zero

\* print_results: either_break_prob
either_break_prob(total_mondays, monday_highs_taken, monday_lows_taken, both_broken) ==
    IF total_mondays > 0
    THEN Frac(monday_highs_taken + monday_lows_taken - both_broken, total_mondays)
    ELSE Zero

(***************************************************************************)
(* monday_partial_breaks.py                                                *)
(***************************************************************************)
None == 0 - 1

ApbInit ==
    [only_high_broken |-> <<>>, only_low_broken |-> <<>>, neither_broken |-> <<>>,
     both_broken |-> <<>>, total_mondays |-> 0]

\* ApbAppend with the second elif written as if: a high-only week falls through
\* to the final else as well
ApbAppendIf(acc, week_info, high_broken, low_broken) ==
    LET first == IF high_broken /\ ~low_broken
                 THEN [acc EXCEPT !.only_high_broken = Append(@, week_info)]
                 ELSE acc
    IN  IF low_broken /\ ~high_broken
        THEN [first EXCEPT !.only_low_broken = Append(@, week_info)]
        ELSE IF ~high_broken /\ ~low_broken
        THEN [first EXCEPT !.neither_broken = Append(@, week_info)]
        ELSE [first EXCEPT !.both_broken = Append(@, week_info)]

\* ApbAppend with the first two target lists exchanged
ApbAppendSwapped(acc, week_info, high_broken, low_broken) ==
    IF high_broken /\ ~low_broken
    THEN [acc EXCEPT !.only_low_broken = Append(@, week_info)]
    ELSE IF low_broken /\ ~high_broken
    THEN [acc EXCEPT !.only_high_broken = Append(@, week_info)]
    ELSE IF ~high_broken /\ ~low_broken
    THEN [acc EXCEPT !.neither_broken = Append(@, week_info)]
    ELSE [acc EXCEPT !.both_broken = Append(@, week_info)]

\* the if/elif chain that files week_info in one of the four lists
ApbAppend(acc, week_info, high_broken, low_broken) ==
    IF high_broken /\ ~low_broken
    THEN [acc EXCEPT !.only_high_broken = Append(@, week_info)]
    ELSE IF low_broken /\ ~high_broken
    THEN [acc EXCEPT !.only_low_broken = Append(@, week_info)]
    ELSE IF ~high_broken /\ ~low_broken
    THEN [acc EXCEPT !.neither_broken = Append(@, week_info)]
    ELSE [acc EXCEPT !.both_broken = Append(@, week_info)]

\* one iteration of the for-loop of analyze_partial_breaks
ApbBody(acc, key, week_data) ==
    LET monday_data == MondayData(week_data)
    IN  IF Len(monday_data) = 0 THEN acc
        ELSE
        LET monday_high == monday_data[1].High
            monday_low == monday_data[1].Low
            monday_date == monday_data[1].Date
            rest_of_week == RestOfWeek(week_data)
            high_break_days == HighBreakDays(rest_of_week, monday_high)
            high_broken == high_break_days # <<>>
            low_break_days == LowBreakDays(rest_of_week, monday_low)
            low_broken == low_break_days # <<>>
            week_info ==
                [Date |-> monday_date, Week |-> key[1], Year |-> key[2],
                 MondayHigh |-> monday_high, MondayLow |-> monday_low,
                 HighBreakDay |-> IF high_broken THEN high_break_days[1].DayOfWeek ELSE None,
                 LowBreakDay |-> IF low_broken THEN low_break_days[1].DayOfWeek ELSE None]
        IN  ApbAppend([acc EXCEPT !.total_mondays = @ + 1], week_info, high_broken, low_broken)

XlPartialInit == [saved |-> FALSE, incomplete_pct |-> Zero, both_pct |-> Zero]

(***************************************************************************)
(* simple_monday_analysis.py                                               *)
(***************************************************************************)
SmaInit ==
    [total_mondays |-> 0, monday_highs_taken |-> 0, monday_lows_taken |-> 0,
     day_high_break |-> EmptyCounter, day_low_break |-> EmptyCounter,
     unbroken_weeks |-> <<>>]

\* one iteration of the for-loop of simple_monday_analysis.analyze_monday_ranges
SmaBody(acc, key, week_data) ==
    LET monday_data == MondayData(week_data)
    IN  IF Len(monday_data) = 0 THEN acc
        ELSE
        LET monday_high == monday_data[1].High
            monday_low == monday_data[1].Low
            monday_date == monday_data[1].Date
            rest_of_week == RestOfWeek(week_data)
            high_break_days == HighBreakDays(rest_of_week, monday_high)
            high_broken == high_break_days # <<>>
            low_break_days == LowBreakDays(rest_of_week, monday_low)
            low_broken == low_break_days # <<>>
        IN  [total_mondays |-> acc.total_mondays + 1,
             monday_highs_taken |-> acc.monday_highs_taken + (IF high_broken THEN 1 ELSE 0),
             monday_lows_taken |-> acc.monday_lows_taken + (IF low_broken THEN 1 ELSE 0),
             day_high_break |-> IF high_broken
                                THEN CounterInc(acc.day_high_break, high_break_days[1].DayOfWeek)
                                ELSE acc.day_high_break,
             day_low_break |-> IF low_broken
                               THEN CounterInc(acc.day_low_break, low_break_days[1].DayOfWeek)
                               ELSE acc.day_low_break,
             unbroken_weeks |-> IF ~high_broken /\ ~low_broken
                                THEN Append(acc.unbroken_weeks,
                                            [Date |-> monday_date, Week |-> key[1],
                                             Year |-> key[2], MondayHigh |-> monday_high,
                                             MondayLow |-> monday_low])
                                ELSE acc.unbroken_weeks]

\* sum(day * count for day, count in counter.items())
RECURSIVE WeightedSum(_)
WeightedSum(c) ==
    IF DOMAIN c = {} THEN 0
    ELSE LET k == CHOOSE x \in DOMAIN c : TRUE
         IN  k * c[k] + WeightedSum([x \in DOMAIN c \ {k} |-> c[x]])

XlSimpleInit == [saved |-> FALSE, avg_high |-> Zero, avg_low |-> Zero]

(***************************************************************************)
(* process_candles.py.  A Date string of the export is the pair of the     *)
(* weekday name written and the calendar day written after it.             *)
(***************************************************************************)
\* the names %A accepts under the German LC_TIME locale
german_days ==
    {"Montag", "Dienstag", "Mittwoch", "Donnerstag", "Freitag", "Samstag", "Sonntag"}

\* Mon and Tue of both weeks, a Tuesday written with the name of a Monday, and a
\* date written with an English name
RawDates ==
    {<<"Montag", 0>>, <<"Dienstag", 1>>, <<"Montag", 7>>, <<"Dienstag", 8>>,
     <<"Montag", 8>>, <<"Monday", 7>>}

RawCandles == {<<2, 2>>, <<3, 2>>}

RawRows == {[Date |-> d, High |-> c[1], Low |-> c[2]] : d \in RawDates, c \in RawCandles}

\* parse_german_date: the date of the day, month and year fields; the weekday name
\* must be one of the locale's but does not enter the date; None when parsing fails
parse_german_date(date_str) == IF date_str[1] \in german_days THEN date_str[2] ELSE None

\* the Date column parsed, rows without a date dropped, Week, Year, DayOfWeek added
ParsedRows(table) ==
    LET parsed == [j \in 1..Len(table) |-> [table[j] EXCEPT !.Date = parse_german_date(@)]]
        HasDate(r) == r.Date # None
        kept == SelectSeq(parsed, HasDate)
    IN  [j \in 1..Len(kept) |-> load_data(kept[j].Date, <<kept[j].High, kept[j].Low>>)]

\* DataFrame.drop_duplicates left out
keep_duplicates(keys) == keys

\* DataFrame.drop_duplicates: the first occurrence of every key, in order
RECURSIVE drop_duplicates(_)
drop_duplicates(keys) ==
    IF keys = <<>> THEN <<>>
    ELSE LET front == drop_duplicates(SubSeq(keys, 1, Len(keys) - 1))
             last == keys[Len(keys)]
         IN  IF \E j \in 1..Len(front) : front[j] = last THEN front ELSE Append(front, last)

\* df[df['DayOfWeek'] == 0][['Week', 'Year']].drop_duplicates()
WeeksWithMonday(table) ==
    LET mondays == MondayData(table)
    IN  drop_duplicates([j \in 1..Len(mondays) |-> KeyOf(mondays[j])])

\* pd.merge with how='left': every left row is kept
merge_left(left, weeks) == left

\* pd.merge(df, weeks_with_monday, on=['Week', 'Year']): the inner join, one output
\* row per pair of a left row and a right row with the same key, in left order
RECURSIVE merge(_, _)
merge(left, weeks) ==
    IF left = <<>> THEN <<>>
    ELSE LET Match(k) == k = KeyOf(Head(left))
             matches == SelectSeq(weeks, Match)
         IN  [j \in 1..Len(matches) |-> Head(left)] \o merge(Tail(left), weeks)

RowPermutations(n) == {p \in [1..n -> 1..n] : \A a, b \in 1..n : a # b => p[a] # p[b]}

\* sort_values('Date') (quicksort, not stable): any ascending order of the rows
sort_values(table) ==
    {[j \in 1..Len(table) |-> table[p[j]]] :
        p \in {q \in RowPermutations(Len(table)) :
                  \A a, b \in 1..Len(table) : a < b => table[q[a]].Date <= table[q[b]].Date}}

\* strftime('%Y-%m-%d') of a date of the table: (year, month, day)
date_format(date) == IF date < 7 THEN <<2023, 12, 25 + date>> ELSE <<2024, 1, date - 6>>

\* the helper columns dropped, the rows written with date_format='%Y-%m-%d'
to_csv(table) ==
    [j \in 1..Len(table) |->
        [Date |-> date_format(table[j].Date), High |-> table[j].High, Low |-> table[j].Low]]

\* the files process_candles can write for an export
process_candles(table) ==
    LET parsed == ParsedRows(table)
        weeks_with_monday == WeeksWithMonday(parsed)
        filtered_df == merge(parsed, weeks_with_monday)
    IN  {to_csv(sorted) : sorted \in sort_values(filtered_df)}

\* pd.to_datetime of a '%Y-%m-%d' string
to_datetime(ymd) == IF ymd[1] = 2023 THEN ymd[3] - 25 ELSE ymd[3] + 6

\* load_data of a written file
read_csv(file) ==
    [j \in 1..Len(file) |->
        load_data(to_datetime(file[j].Date), <<file[j].High, file[j].Low>>)]

(***************************************************************************)
(* The run: the three scripts' main(), one after the other.                *)
(***************************************************************************)
\* no script has run yet
Fresh ==
    /\ i = 1
    /\ amr = AmrInit
    /\ probs = ProbsInit
    /\ either = Zero
    /\ apb = ApbInit
    /\ xl_partial = XlPartialInit
    /\ sma = SmaInit
    /\ sprobs = ProbsInit
    /\ xl_simple = XlSimpleInit
    /\ err = [s \in Scripts |-> NoError]

\* the scripts are about to run on a table that is taken as given
Started == csv = <<>> /\ filtered = <<>> /\ pc = "analyze_monday_ranges" /\ Fresh

Init == df \in Tables(MaxRows) /\ Started

\* the run on a table that may hold candles with a missing High or Low
InitNaN == df \in TablesOf(NaNRows, MaxRows) /\ Started

\* analyze_monday_ranges.py: analyze_monday_ranges, one group of the groupby
AnalyzeMondayRangesStep ==
    /\ pc = "analyze_monday_ranges"
    /\ i <= Len(GroupKeys(df))
    /\ amr' = AmrBody(amr, WeekData(df, GroupKeys(df)[i]))
    /\ i' = i + 1
    /\ UNCHANGED <<csv, filtered, df, pc, probs, either, apb, xl_partial, sma, sprobs, xl_simple, err>>

\* analyze_monday_ranges.py: the loop is over; main calls calculate_probabilities
CalculateProbabilities ==
    /\ pc = "analyze_monday_ranges"
    /\ i > Len(GroupKeys(df))
    /\ IF DOMAIN amr.day_high_break \cup DOMAIN amr.day_low_break \subseteq DOMAIN day_names
       THEN /\ probs' = calculate_probabilities(amr.total_mondays, amr.monday_highs_taken,
                            amr.monday_lows_taken, amr.day_high_break, amr.day_low_break)
            /\ pc' = "print_results"
            /\ err' = err
       ELSE /\ err' = [err EXCEPT !["analyze_monday_ranges"] = "KeyError"]
            /\ pc' = "analyze_partial_breaks"
            /\ probs' = probs
    /\ i' = 1
    /\ UNCHANGED <<csv, filtered, df, amr, either, apb, xl_partial, sma, sprobs, xl_simple>>

\* analyze_monday_ranges.py: print_results
PrintResults ==
    /\ pc = "print_results"
    /\ either' = either_break_prob(amr.total_mondays, amr.monday_highs_taken,
                                   amr.monday_lows_taken, amr.both_broken)
    /\ pc' = "analyze_partial_breaks"
    /\ UNCHANGED <<csv, filtered, df, i, amr, probs, apb, xl_partial, sma, sprobs, xl_simple, err>>

\* monday_partial_breaks.py: analyze_partial_breaks, one group of the groupby
AnalyzePartialBreaksStep ==
    /\ pc = "analyze_partial_breaks"
    /\ i <= Len(GroupKeys(df))
    /\ apb' = ApbBody(apb, GroupKeys(df)[i], WeekData(df, GroupKeys(df)[i]))
    /\ i' = i + 1
    /\ UNCHANGED <<csv, filtered, df, pc, amr, probs, either, xl_partial, sma, sprobs, xl_simple, err>>

\* monday_partial_breaks.py: the loop is over; main calls create_excel_report
CreateExcelReportPartial ==
    /\ pc = "analyze_partial_breaks"
    /\ i > Len(GroupKeys(df))
    /\ IF apb.total_mondays = 0
       THEN /\ err' = [err EXCEPT !["monday_partial_breaks"] = "ZeroDivisionError"]
            /\ xl_partial' = xl_partial
       ELSE /\ xl_partial' =
                   [saved |-> TRUE,
                    incomplete_pct |-> Frac(Len(apb.only_high_broken) + Len(apb.only_low_broken)
                                            + Len(apb.neither_broken), apb.total_mondays),
                    both_pct |-> Frac(Len(apb.both_broken), apb.total_mondays)]
            /\ err' = err
    /\ pc' = "simple_analyze_monday_ranges"
    /\ i' = 1
    /\ UNCHANGED <<csv, filtered, df, amr, probs, either, apb, sma, sprobs, xl_simple>>

\* simple_monday_analysis.py: analyze_monday_ranges, one group of the groupby
SimpleAnalyzeMondayRangesStep ==
    /\ pc = "simple_analyze_monday_ranges"
    /\ i <= Len(GroupKeys(df))
    /\ sma' = SmaBody(sma, GroupKeys(df)[i], WeekData(df, GroupKeys(df)[i]))
    /\ i' = i + 1
    /\ UNCHANGED <<csv, filtered, df, pc, amr, probs, either, apb, xl_partial, sprobs, xl_simple, err>>

\* simple_monday_analysis.py: the loop is over; main calls calculate_probabilities
SimpleCalculateProbabilities ==
    /\ pc = "simple_analyze_monday_ranges"
    /\ i > Len(GroupKeys(df))
    /\ IF DOMAIN sma.day_high_break \cup DOMAIN sma.day_low_break \subseteq DOMAIN day_names
       THEN /\ sprobs' = calculate_probabilities(sma.total_mondays, sma.monday_highs_taken,
                             sma.monday_lows_taken, sma.day_high_break, sma.day_low_break)
            /\ pc' = "simple_create_excel_report"
            /\ err' = err
       ELSE /\ err' = [err EXCEPT !["simple_monday_analysis"] = "KeyError"]
            /\ pc' = "done"
            /\ sprobs' = sprobs
    /\ UNCHANGED <<csv, filtered, df, i, amr, probs, either, apb, xl_partial, sma, xl_simple>>

\* simple_monday_analysis.py: create_excel_report
SimpleCreateExcelReport ==
    /\ pc = "simple_create_excel_report"
    /\ IF sma.monday_highs_taken = 0 \/ sma.monday_lows_taken = 0
       THEN /\ err' = [err EXCEPT !["simple_monday_analysis"] = "ZeroDivisionError"]
            /\ xl_simple' = xl_simple
       ELSE /\ xl_simple' =
                   [saved |-> TRUE,
                    avg_high |-> Frac(WeightedSum(sma.day_high_break), sma.monday_highs_taken),
                    avg_low |-> Frac(WeightedSum(sma.day_low_break), sma.monday_lows_taken)]
            /\ err' = err
    /\ pc' = "done"
    /\ UNCHANGED <<csv, filtered, df, i, amr, probs, either, apb, xl_partial, sma, sprobs>>

Next ==
    \/ AnalyzeMondayRangesStep
    \/ CalculateProbabilities
    \/ PrintResults
    \/ AnalyzePartialBreaksStep
    \/ CreateExcelReportPartial
    \/ SimpleAnalyzeMondayRangesStep
    \/ SimpleCalculateProbabilities
    \/ SimpleCreateExcelReport

Spec == Init /\ [][Next]_vars

SpecNaN == InitNaN /\ [][Next]_vars

(***************************************************************************)
(* The pipeline: process_candles on the vendor's export, then the scripts  *)
(* on the file it wrote.                                                   *)
(***************************************************************************)
InitPipeline ==
    /\ csv \in TablesOf(RawRows, MaxRows)
    /\ filtered = <<>>
    /\ df = <<>>
    /\ pc = "process_candles"
    /\ Fresh

\* process_candles.py: process_candles.  When no date parses, the Date column that
\* apply returns holds only None and keeps dtype object, so .dt raises
\* AttributeError and no file is written.
ProcessCandles ==
    /\ pc = "process_candles"
    /\ IF ParsedRows(csv) = <<>>
       THEN /\ err' = [err EXCEPT !["process_candles"] = "AttributeError"]
            /\ pc' = "failed"
            /\ UNCHANGED filtered
       ELSE /\ filtered' \in process_candles(csv)
            /\ pc' = "load_data"
            /\ UNCHANGED err
    /\ UNCHANGED <<csv, df, i, amr, probs, either, apb, xl_partial, sma, sprobs, xl_simple>>

\* the scripts' load_data('filtered_candles.csv')
LoadData ==
    /\ pc = "load_data"
    /\ df' = read_csv(filtered)
    /\ pc' = "analyze_monday_ranges"
    /\ UNCHANGED <<csv, filtered, i, amr, probs, either, apb, xl_partial, sma, sprobs, xl_simple, err>>

NextPipeline == ProcessCandles \/ LoadData \/ Next

SpecPipeline == InitPipeline /\ [][NextPipeline]_vars

(***************************************************************************)
(* What the properties say about a week, read off the table row by row.    *)
(***************************************************************************)
Keys == GroupKeys(df)

Prefix == {Keys[j] : j \in 1..(i - 1)}

AllKeys == {Keys[j] : j \in 1..Len(Keys)}

\* the groups each script's loop has been through
AmrProcessed == IF pc = "analyze_monday_ranges" THEN Prefix ELSE AllKeys

ApbProcessed ==
    IF pc \in {"analyze_monday_ranges", "print_results"} THEN {}
    ELSE IF pc = "analyze_partial_breaks" THEN Prefix ELSE AllKeys

SmaProcessed ==
    IF pc = "simple_analyze_monday_ranges" THEN Prefix
    ELSE IF pc \in {"simple_create_excel_report", "done"} THEN AllKeys ELSE {}

RowsOfWeek(k) == {j \in 1..Len(df) : df[j].Week = k[1] /\ df[j].Year = k[2]}

MondayRows(k) == {j \in RowsOfWeek(k) : df[j].DayOfWeek = 0}

Eligible(k) == MondayRows(k) # {}

\* the Monday reference: the first Monday row of the week
Reference(k) == df[CHOOSE j \in MondayRows(k) : \A o \in MondayRows(k) : j <= o]

HighBreakRows(k) ==
    {j \in RowsOfWeek(k) : df[j].DayOfWeek \in 1..4 /\ df[j].High > Reference(k).High}

LowBreakRows(k) ==
    {j \in RowsOfWeek(k) : df[j].DayOfWeek \in 1..4 /\ df[j].Low < Reference(k).Low}

HighBrokenWeek(k) == Eligible(k) /\ HighBreakRows(k) # {}

LowBrokenWeek(k) == Eligible(k) /\ LowBreakRows(k) # {}

\* weekday of the earliest-dated row among the rows J
EarliestDay(J) == df[CHOOSE j \in J : \A o \in J : df[j].Date <= df[o].Date].DayOfWeek

ApbLists == <<apb.only_high_broken, apb.only_low_broken, apb.neither_broken, apb.both_broken>>

\* the (list, position) pairs of the four lists that hold week k
ApbEntries(k) ==
    {e \in (1..4) \X (1..MaxRows) :
        /\ e[2] <= Len(ApbLists[e[1]])
        /\ ApbLists[e[1]][e[2]].Week = k[1]
        /\ ApbLists[e[1]][e[2]].Year = k[2]}

ApbWeekInfos == UNION {{ApbLists[l][j] : j \in 1..Len(ApbLists[l])} : l \in 1..4}

\* C1: analyze_partial_breaks files every eligible week in exactly one of the four
\* lists, once, so the four lengths add up to total_mondays.
C1_ExactlyOneList ==
    /\ Len(apb.only_high_broken) + Len(apb.only_low_broken)
       + Len(apb.neither_broken) + Len(apb.both_broken) = apb.total_mondays
    /\ \A k \in ApbProcessed : Eligible(k) => Cardinality(ApbEntries(k)) = 1

C1_Witness ==
    /\ pc = "done"
    /\ apb.total_mondays = 2
    /\ Len(apb.only_high_broken) = 1
    /\ Len(apb.neither_broken) = 1

NoMondayStep ==
    /\ pc \in {"analyze_monday_ranges", "analyze_partial_breaks", "simple_analyze_monday_ranges"}
    /\ i <= Len(Keys)
    /\ ~Eligible(Keys[i])

TotalsCountEligible ==
    /\ amr.total_mondays = Cardinality({k \in AmrProcessed : Eligible(k)})
    /\ apb.total_mondays = Cardinality({k \in ApbProcessed : Eligible(k)})
    /\ sma.total_mondays = Cardinality({k \in SmaProcessed : Eligible(k)})
    /\ \A w \in ApbWeekInfos : Eligible(<<w.Week, w.Year>>)
    /\ \A j \in 1..Len(sma.unbroken_weeks) :
          Eligible(<<sma.unbroken_weeks[j].Week, sma.unbroken_weeks[j].Year>>)

\* C2: a (Week, Year) group without a Monday row changes no count, tally or list of
\* any analysis, and total_mondays is the number of groups seen that have a Monday row.
C2_NoMondayExcluded ==
    /\ []TotalsCountEligible
    /\ [][NoMondayStep => (amr' = amr /\ apb' = apb /\ sma' = sma)]_vars

C2_Witness ==
    /\ pc = "done"
    /\ Len(Keys) = 2
    /\ amr.total_mondays = 1
    /\ apb.total_mondays = 1
    /\ sma.total_mondays = 1

\* C3: the high of an eligible week counts as broken iff some Tue..Fri row of the week
\* has High strictly above the Monday reference High.
C3_HighBrokenIff ==
    /\ amr.monday_highs_taken = Cardinality({k \in AmrProcessed : HighBrokenWeek(k)})
    /\ \A w \in ApbWeekInfos : (w.HighBreakDay # None) <=> HighBrokenWeek(<<w.Week, w.Year>>)

\* a counted week whose Saturday row is above the Monday high, whose Tuesday row
\* equals it, and whose high is not counted as broken
C3_Witness ==
    /\ pc = "done"
    /\ amr.total_mondays = 1
    /\ amr.monday_highs_taken = 0
    /\ \E k \in AllKeys :
          /\ Eligible(k)
          /\ \E j \in RowsOfWeek(k) : df[j].DayOfWeek = 5 /\ df[j].High > Reference(k).High
          /\ \E j \in RowsOfWeek(k) : df[j].DayOfWeek = 1 /\ df[j].High = Reference(k).High

\* C4: the low of an eligible week counts as broken iff some Tue..Fri row of the week
\* has Low strictly below the Monday reference Low, whether or not the high is broken
\* too; a week with no Tue..Fri row has neither broken.
C4_LowBrokenIff ==
    /\ amr.monday_lows_taken = Cardinality({k \in AmrProcessed : LowBrokenWeek(k)})
    /\ amr.both_broken
       = Cardinality({k \in AmrProcessed : HighBrokenWeek(k) /\ LowBrokenWeek(k)})
    /\ \A w \in ApbWeekInfos : (w.LowBreakDay # None) <=> LowBrokenWeek(<<w.Week, w.Year>>)

C4_Witness ==
    /\ pc = "done"
    /\ amr.monday_highs_taken = 1
    /\ amr.monday_lows_taken = 1
    /\ amr.both_broken = 1

\* one candle per date, the data the normalizer is assumed to deliver
DistinctDates == \A a, b \in 1..Len(df) : a # b => df[a].Date # df[b].Date

\* C5: the recorded first break day of a broken high (low) is the weekday of the
\* earliest-dated Tue..Fri row above the Monday high (below the Monday low), whatever
\* the row order of the table (stated for tables with one candle per date).
C5_FirstBreakIsEarliest ==
    DistinctDates =>
    /\ \A w \in ApbWeekInfos :
          /\ w.HighBreakDay # None
                => w.HighBreakDay = EarliestDay(HighBreakRows(<<w.Week, w.Year>>))
          /\ w.LowBreakDay # None
                => w.LowBreakDay = EarliestDay(LowBreakRows(<<w.Week, w.Year>>))
    /\ \A d \in DOMAIN amr.day_high_break :
          amr.day_high_break[d]
          = Cardinality({k \in AmrProcessed :
                            HighBrokenWeek(k) /\ EarliestDay(HighBreakRows(k)) = d})
    /\ \A d \in DOMAIN amr.day_low_break :
          amr.day_low_break[d]
          = Cardinality({k \in AmrProcessed :
                            LowBrokenWeek(k) /\ EarliestDay(LowBreakRows(k)) = d})

\* the tables that are df with its rows permuted inside their weeks
WithinWeekPermutations ==
    {[j \in 1..Len(df) |-> df[p[j]]] :
        p \in {q \in RowPermutations(Len(df)) :
                  \A j \in 1..Len(df) : KeyOf(df[q[j]]) = KeyOf(df[j])}}

\* C6: the result of analyze_monday_ranges is the same for the table and for every
\* permutation of its rows inside their weeks (stated for tables with one candle per
\* date).
C6_OrderIndependent ==
    (pc # "analyze_monday_ranges" /\ DistinctDates)
        => \A permuted \in WithinWeekPermutations : analyze_monday_ranges(permuted) = amr

ProbNumerators(day_probs) == [n \in DOMAIN day_probs |-> day_probs[n][1]]

\* C7: the per-day tallies add up to the number of broken weeks, for highs and for
\* lows, so the per-day probabilities (tally over that number) add up to 1.
C7_TalliesSumToBreaks ==
    /\ CounterSum(amr.day_high_break) = amr.monday_highs_taken
    /\ CounterSum(amr.day_low_break) = amr.monday_lows_taken
    /\ CounterSum(sma.day_high_break) = sma.monday_highs_taken
    /\ CounterSum(sma.day_low_break) = sma.monday_lows_taken
    /\ (pc \notin {"analyze_monday_ranges"} /\ amr.monday_highs_taken > 0)
          => /\ \A n \in DOMAIN probs.day_high_probs :
                   probs.day_high_probs[n][2] = amr.monday_highs_taken
             /\ CounterSum(ProbNumerators(probs.day_high_probs)) = amr.monday_highs_taken
    /\ (pc \notin {"analyze_monday_ranges"} /\ amr.monday_lows_taken > 0)
          => /\ \A n \in DOMAIN probs.day_low_probs :
                   probs.day_low_probs[n][2] = amr.monday_lows_taken
             /\ CounterSum(ProbNumerators(probs.day_low_probs)) = amr.monday_lows_taken

\* a week with two rows above the Monday high, tallied once
C7_Witness ==
    /\ pc = "print_results"
    /\ amr.monday_highs_taken = 1
    /\ \E k \in AllKeys : HighBrokenWeek(k) /\ Cardinality(HighBreakRows(k)) = 2
    /\ DOMAIN probs.day_high_probs = {"Tuesday"}

\* C8: with total_mondays > 0 the numerator of either_break_prob is total_mondays less
\* the number of weeks with neither level broken, and lies in 0..total_mondays.
C8_EitherIsComplementOfNeither ==
    (pc \in {"simple_create_excel_report", "done"} /\ amr.total_mondays > 0)
        => /\ either[2] = amr.total_mondays
           /\ either[1] = amr.total_mondays - Len(sma.unbroken_weeks)
           /\ either[1] = amr.total_mondays - Len(apb.neither_broken)
           /\ either[1] \in 0..amr.total_mondays

C8_Witness ==
    /\ pc = "done"
    /\ amr.total_mondays = 1
    /\ amr.both_broken = 1
    /\ either = <<1, 1>>

\* C9: on the same table the counting and the categorizing analysis agree: highs taken
\* is only-high plus both, lows taken is only-low plus both, both_broken is the length
\* of the both list, and total_mondays is the same.
C9_AnalysesAgree ==
    (pc \in {"simple_analyze_monday_ranges", "simple_create_excel_report", "done"})
        => /\ amr.monday_highs_taken = Len(apb.only_high_broken) + Len(apb.both_broken)
           /\ amr.monday_lows_taken = Len(apb.only_low_broken) + Len(apb.both_broken)
           /\ amr.both_broken = Len(apb.both_broken)
           /\ amr.total_mondays = apb.total_mondays

C9_Witness ==
    /\ pc = "done"
    /\ amr.total_mondays = 2
    /\ amr.monday_lows_taken = 1
    /\ Len(apb.only_low_broken) = 1
    /\ Len(apb.neither_broken) = 1

\* C10: with no eligible week every probability is 0 and all three runs, report
\* generation included, finish without a ZeroDivisionError.
C10_NoMondaysNoFailure ==
    (pc = "done" /\ amr.total_mondays = 0)
        => /\ probs.high_break_prob[1] = 0
           /\ probs.low_break_prob[1] = 0
           /\ sprobs.high_break_prob[1] = 0
           /\ sprobs.low_break_prob[1] = 0
           /\ either[1] = 0
           /\ \A s \in Scripts : err[s] = NoError

\* the table is in ascending date order, as process_candles writes it
DateSorted == \A a, b \in 1..Len(df) : a < b => df[a].Date <= df[b].Date

\* week_info a is of an earlier ISO week than week_info b
EarlierWeek(a, b) == a.Year < b.Year \/ (a.Year = b.Year /\ a.Week < b.Week)

Chronological(weeks) == \A a, b \in 1..Len(weeks) : a < b => EarlierWeek(weeks[a], weeks[b])

\* C11: for a date-sorted table the weeks of each of the four lists of
\* analyze_partial_breaks, and of unbroken_weeks, are in ascending (isoYear, isoWeek)
\* order, also when the table spans more than one ISO year.
C11_ListsChronological ==
    DateSorted =>
        /\ \A l \in 1..4 : Chronological(ApbLists[l])
        /\ Chronological(sma.unbroken_weeks)

\* some week with a Monday row holds a candle whose High or Low is NaN
NaNInEligibleWeek ==
    \E k \in AllKeys :
        Eligible(k) /\ \E j \in RowsOfWeek(k) : df[j].High = NaN \/ df[j].Low = NaN

\* C12: when a candle of an eligible week has a missing High or Low, every script's
\* run ends with an error instead of returning counts: none gets past its analysis
\* function without an exception.
C12_NaNFailsRun ==
    NaNInEligibleWeek =>
        /\ pc # "analyze_monday_ranges" => err["analyze_monday_ranges"] # NoError
        /\ pc \in {"simple_analyze_monday_ranges", "simple_create_excel_report", "done"}
              => err["monday_partial_breaks"] # NoError
        /\ pc = "done" => err["simple_monday_analysis"] # NoError

(***************************************************************************)
(* process_candles and its composition with the analysis.                  *)
(***************************************************************************)
\* the export's row j carries a date that parses
Parses(j) == csv[j].Date[1] \in german_days

\* the calendar week of the export's row j holds a parsed row dated on a Monday
InMondayWeek(j) ==
    \E m \in 1..Len(csv) :
        /\ Parses(m)
        /\ csv[m].Date[2] % 7 = 0
        /\ csv[m].Date[2] \div 7 = csv[j].Date[2] \div 7

KeptRows == {j \in 1..Len(csv) : Parses(j) /\ InMondayWeek(j)}

\* the export's row j as the output file shows it
Written(j) ==
    [Date |-> date_format(csv[j].Date[2]), High |-> csv[j].High, Low |-> csv[j].Low]

\* (year, month, day) a is not after b
YmdLeq(a, b) ==
    \/ a[1] < b[1]
    \/ a[1] = b[1] /\ a[2] < b[2]
    \/ a[1] = b[1] /\ a[2] = b[2] /\ a[3] <= b[3]

\* C13: once process_candles has run, its output holds exactly the export's rows
\* whose date parsed and whose ISO week holds a Monday row: each of them as often
\* as the export holds it (none duplicated, none lost), no other row, and the
\* rows are in ascending date order.
C13_WritesMondayWeeksOnce ==
    pc # "process_candles" =>
        /\ Len(filtered) = Cardinality(KeptRows)
        /\ \A j \in KeptRows :
              Cardinality({m \in 1..Len(filtered) : filtered[m] = Written(j)})
                  = Cardinality({m \in KeptRows : Written(m) = Written(j)})
        /\ \A m \in 1..Len(filtered) : \E j \in KeptRows : filtered[m] = Written(j)
        /\ \A a, b \in 1..Len(filtered) : a < b => YmdLeq(filtered[a].Date, filtered[b].Date)

\* a file was written from an export that lists a kept week out of date order and
\* holds a parsed row of a week without a Monday
C13_Witness ==
    /\ pc = "load_data"
    /\ \E a, b \in KeptRows : a < b /\ csv[a].Date[2] > csv[b].Date[2]
    /\ \E j \in 1..Len(csv) : Parses(j) /\ j \notin KeptRows
    /\ Len(filtered) = 2

\* C14: when weeks were counted but no Monday high (or no Monday low) was taken
\* out, the per-day probability map of that side is empty and
\* simple_monday_analysis, its average-break-day statistic included, finishes
\* without a division by zero.
C14_NoBreaksNoFailure ==
    (/\ pc = "done"
     /\ sma.total_mondays > 0
     /\ (sma.monday_highs_taken = 0 \/ sma.monday_lows_taken = 0))
        => /\ sma.monday_highs_taken = 0 => DOMAIN sprobs.day_high_probs = {}
           /\ sma.monday_lows_taken = 0 => DOMAIN sprobs.day_low_probs = {}
           /\ err["simple_monday_analysis"] = NoError

\* the analysis of analyze_monday_ranges.py has gone through every group
AmrLoopDone == pc \notin {"process_candles", "load_data", "failed", "analyze_monday_ranges"}

\* the distinct (Week, Year) keys of the loaded table
DistinctKeys == {<<df[j].Week, df[j].Year>> : j \in 1..Len(df)}

\* C15: when the analysis runs on the file process_candles wrote, every
\* (Week, Year) group of the loaded table holds a Monday row, and once the loop is
\* through total_mondays is the number of distinct (Week, Year) keys.
C15_EveryGroupEligible ==
    /\ pc \notin {"process_candles", "load_data", "failed"} => \A k \in DistinctKeys : Eligible(k)
    /\ AmrLoopDone => amr.total_mondays = Cardinality(DistinctKeys)

\* the export held a parsed row of a week without a Monday next to a week of two
\* rows with one, and the analysis counted that week
C15_Witness ==
    /\ AmrLoopDone
    /\ amr.total_mondays = 1
    /\ Len(df) = 2
    /\ \E j \in 1..Len(csv) : Parses(j) /\ j \notin KeptRows

(***************************************************************************)
(* The break days.                                                         *)
(***************************************************************************)
\* Tuesday to Friday
TueToFri == {1, 2, 3, 4}

\* C16: in every week record of analyze_partial_breaks 'High Break Day' is None
\* exactly when the record is in only_low_broken or neither_broken and is a
\* weekday number of Tue..Fri otherwise, likewise 'Low Break Day' with
\* only_high_broken and neither_broken; every key of day_high_break and
\* day_low_break is a weekday number of Tue..Fri, and no run ends in a KeyError.
C16_BreakDaysAreTueToFri ==
    /\ \A l \in 1..4 : \A m \in 1..Len(ApbLists[l]) :
          LET week_info == ApbLists[l][m]
          IN  /\ week_info.HighBreakDay = None <=> l \in {2, 3}
              /\ week_info.HighBreakDay # None => week_info.HighBreakDay \in TueToFri
              /\ week_info.LowBreakDay = None <=> l \in {1, 3}
              /\ week_info.LowBreakDay # None => week_info.LowBreakDay \in TueToFri
    /\ DOMAIN amr.day_high_break \cup DOMAIN amr.day_low_break \subseteq TueToFri
    /\ DOMAIN sma.day_high_break \cup DOMAIN sma.day_low_break \subseteq TueToFri
    /\ \A s \in Scripts : err[s] # "KeyError"

\* all three runs are through a week whose high broke on Tuesday and whose low
\* broke on Wednesday
C16_Witness ==
    /\ pc = "done"
    /\ Len(apb.both_broken) = 1
    /\ apb.both_broken[1].HighBreakDay = 1
    /\ apb.both_broken[1].LowBreakDay = 2
    /\ DOMAIN probs.day_high_probs = {"Tuesday"}
    /\ DOMAIN probs.day_low_probs = {"Wednesday"}
====
